---- MODULE Spec2Model ----
(***************************************************************************)
(* A model of color_remover.py: the colour matcher (is_color_match), the   *)
(* frame processor (process_single_frame), the colour-string parser        *)
(* (parse_color), the image pipeline (process_image) and the main command. *)
(*                                                                         *)
(* Python strings are sequences of one-character strings, tuples are       *)
(* sequences, None is the empty tuple where a colour is expected.          *)
(***************************************************************************)
EXTENDS Integers, Sequences, FiniteSets, TLC

VARIABLES
    \* ---- the main command (Spec) ----
    argv,            \* the command line: tolerance, --search, --replace, --bw-only
    fs,              \* the file system: the input file and the output file
    pc,              \* main's position
    replacement_rgb, \* main's local, the parsed --replace
    target_rgb,      \* main's local, the parsed --search
    im,              \* the opened image: position of the decoder and im.info
    frames,          \* process_image's list of processed frames
    raised,          \* the exception in flight ("" when none)
    exit_code,       \* -1 while running, then the typer exit code
    trace,           \* what the run has done so far (ghost: the order of the effects)
    \* ---- the pure functions applied to drawn inputs (SpecFrame) ----
    call,            \* the arguments of process_single_frame
    ret,             \* its result
    ret2,            \* the result of applying it again to its own result
    match            \* one application of is_color_match to a pixel of the image

mainVars == <<argv, fs, pc, replacement_rgb, target_rgb, im, frames, raised, exit_code, trace>>
frameVars == <<call, ret, ret2, match>>
vars == <<argv, fs, pc, replacement_rgb, target_rgb, im, frames, raised, exit_code, trace,
          call, ret, ret2, match>>

(***************************************************************************)
(* Bounds of the model.                                                    *)
(***************************************************************************)
MaxWidth == 2
MaxHeight == 2
MaxFrames == 2

(***************************************************************************)
(* Program constants.                                                      *)
(***************************************************************************)
MaxChannel == 255
MaxTolerance == 255
Opaque == 255
HexLen == 7
DefaultLoop == 0
DefaultDuration == 100

\* None, where a colour tuple is expected.
NoneColor == <<>>

Abs(x) == IF x < 0 THEN -x ELSE x

Max3(a, b, c) == IF a >= b /\ a >= c THEN a ELSE IF b >= c THEN b ELSE c

Min2(a, b) == IF a <= b THEN a ELSE b

\* t[:3]
FirstThree(t) == SubSeq(t, 1, Min2(3, Len(t)))

(***************************************************************************)
(* is_color_match.  The Euclidean distance is a float; it is only ever     *)
(* compared with tolerance * 2.5, a multiple of 1/2, so the model keeps it *)
(* in half units rounded up: sqrt(s) <= k/2 iff ceil(2*sqrt(s)) <= k for   *)
(* an integer k.                                                           *)
(***************************************************************************)
CeilSqrt(n) == CHOOSE r \in 0..(4 * MaxChannel + 4) :
                   r * r >= n /\ (r = 0 \/ (r - 1) * (r - 1) < n)

\* (r_diff ** 2 + g_diff ** 2 + b_diff ** 2) ** 0.5, in half units
color_distance(r_diff, g_diff, b_diff) ==
    CeilSqrt(4 * (r_diff * r_diff + g_diff * g_diff + b_diff * b_diff))

\* tolerance * 2.5, in half units
distance_tolerance(tolerance) == 5 * tolerance

max_channel_diff(r_diff, g_diff, b_diff) == Max3(r_diff, g_diff, b_diff)

\* A variant of is_color_match: the channel rule alone, without the distance rule.
MatchByChannelOnly(pixel, target_color, tolerance) ==
    LET pixel_rgb == FirstThree(pixel)
        target_rgb_ == FirstThree(target_color)
    IN  Max3(Abs(pixel_rgb[1] - target_rgb_[1]),
             Abs(pixel_rgb[2] - target_rgb_[2]),
             Abs(pixel_rgb[3] - target_rgb_[3])) <= tolerance

is_color_match(pixel, target_color, tolerance) ==
    LET pixel_rgb == FirstThree(pixel)
        target_rgb_ == FirstThree(target_color)
        r_diff == Abs(pixel_rgb[1] - target_rgb_[1])
        g_diff == Abs(pixel_rgb[2] - target_rgb_[2])
        b_diff == Abs(pixel_rgb[3] - target_rgb_[3])
    IN  \/ max_channel_diff(r_diff, g_diff, b_diff) <= tolerance
        \/ color_distance(r_diff, g_diff, b_diff) <= distance_tolerance(tolerance)

(***************************************************************************)
(* Images: a mode, a size and the pixels in row-major order.               *)
(***************************************************************************)
NoImage == [mode |-> "none", width |-> 0, height |-> 0, px |-> <<>>]

\* image.convert("RGB"): the colour channels, the alpha channel dropped
ConvertRGB(image) ==
    [mode |-> "RGB", width |-> image.width, height |-> image.height,
     px |-> [i \in 1..Len(image.px) |-> FirstThree(image.px[i])]]

\* Image.new('RGBA', size): every pixel transparent black
ImageNewRGBA(width, height) ==
    [mode |-> "RGBA", width |-> width, height |-> height,
     px |-> [i \in 1..(width * height) |-> <<0, 0, 0, 0>>]]

\* pixels[x, y] and putpixel((x, y), ...) address the same row-major cell
PixelIndex(image, x, y) == y * image.width + x + 1

Clip8(v) == IF v < 0 THEN 0 ELSE IF v > MaxChannel THEN MaxChannel ELSE v

\* Image.putpixel: the channel values are clipped to a byte
putpixel(image, x, y, value) ==
    [image EXCEPT !.px[PixelIndex(image, x, y)] = [c \in 1..Len(value) |-> Clip8(value[c])]]

\* all(abs(c - 0) <= tolerance for c in px[:3])
\* A variant of is_black: any() in place of all().
is_black_any(px, tolerance) == \E c \in 1..Len(FirstThree(px)) : Abs(px[c] - 0) <= tolerance

is_black(px, tolerance) == \A c \in 1..Len(FirstThree(px)) : Abs(px[c] - 0) <= tolerance

\* all(abs(c - 255) <= tolerance for c in px[:3])
is_white(px, tolerance) == \A c \in 1..Len(FirstThree(px)) : Abs(px[c] - MaxChannel) <= tolerance

\* (*px, 255)
\* A variant of (*px, 255): the channels in B, G, R order.
KeptPixelReversed(px) == <<px[3], px[2], px[1], Opaque>>

KeptPixel(px) == <<px[1], px[2], px[3], Opaque>>

\* (*replacement_color, 255)
\* Unpacking None raises TypeError: the value is then no tuple at all (NoneColor).
ReplacedPixel(replacement_color) ==
    IF replacement_color = NoneColor THEN NoneColor ELSE replacement_color \o <<Opaque>>

\* the keep_only_bw branch
\* A variant of the keep_only_bw branch: exact black and white, tolerance ignored.
BwBranchExact(px, replacement_color, tolerance) ==
    IF is_black(px, 0) \/ is_white(px, 0)
    THEN KeptPixel(px)
    ELSE ReplacedPixel(replacement_color)

BwBranch(px, replacement_color, tolerance) ==
    IF is_black(px, tolerance) \/ is_white(px, tolerance)
    THEN KeptPixel(px)
    ELSE ReplacedPixel(replacement_color)

\* the final else branch
DefaultBranch(px, replacement_color, tolerance) ==
    IF is_black(px, tolerance) \/ is_white(px, tolerance)
    THEN KeptPixel(px)
    ELSE ReplacedPixel(replacement_color)

\* the target_color branch
TargetBranch(px, target_color, replacement_color, tolerance) ==
    IF is_color_match(px, target_color, tolerance)
    THEN ReplacedPixel(replacement_color)
    ELSE KeptPixel(px)

\* The value the body of the loop writes at one coordinate.
WrittenPixel(px, target_color, replacement_color, keep_only_bw, tolerance) ==
    IF target_color # NoneColor
    THEN TargetBranch(px, target_color, replacement_color, tolerance)
    ELSE IF keep_only_bw
         THEN BwBranch(px, replacement_color, tolerance)
         ELSE DefaultBranch(px, replacement_color, tolerance)

\* range(height) x range(width), in the order of the two loops
\* A variant of the loops: range(height - 1), the last row never visited.
CoordinatesShort(width, height) ==
    [i \in 1..(width * (height - 1)) |-> <<(i - 1) % width, (i - 1) \div width>>]

Coordinates(width, height) ==
    [i \in 1..(width * height) |-> <<(i - 1) % width, (i - 1) \div width>>]

\* The loop: st is [raised, image]; an exception ends it.
RECURSIVE PixelLoop(_, _, _, _, _, _, _, _)
PixelLoop(st, pixels, coords, k, target_color, replacement_color, keep_only_bw, tolerance) ==
    IF k > Len(coords) \/ st.raised # ""
    THEN st
    ELSE LET x == coords[k][1]
             y == coords[k][2]
             px == pixels.px[PixelIndex(pixels, x, y)]
             value == WrittenPixel(px, target_color, replacement_color,
                                   keep_only_bw, tolerance)
         IN  IF value = NoneColor
             THEN [raised |-> "TypeError", image |-> st.image]
             ELSE PixelLoop([raised |-> "", image |-> putpixel(st.image, x, y, value)],
                            pixels, coords, k + 1,
                            target_color, replacement_color, keep_only_bw, tolerance)

process_single_frame(image, target_color, replacement_color, keep_only_bw, tolerance) ==
    LET frame_rgb == ConvertRGB(image)
        frame_rgba == ImageNewRGBA(frame_rgb.width, frame_rgb.height)
    IN  PixelLoop([raised |-> "", image |-> frame_rgba], frame_rgb,
                  Coordinates(frame_rgb.width, frame_rgb.height), 1,
                  target_color, replacement_color, keep_only_bw, tolerance)

(***************************************************************************)
(* Strings, and the str and int operations parse_color uses.               *)
(***************************************************************************)
Whitespace == {" ", "\t"}

DecChars == <<"0", "1", "2", "3", "4", "5", "6", "7", "8", "9">>

HexChars == DecChars \o <<"a", "b", "c", "d", "e", "f">>

UpperHex == <<"A", "B", "C", "D", "E", "F">>

Lower(c) == IF \E i \in 1..Len(UpperHex) : UpperHex[i] = c
            THEN HexChars[10 + CHOOSE i \in 1..Len(UpperHex) : UpperHex[i] = c]
            ELSE c

\* Whether c is a digit in the base, and its value.
IsDigit(c, base) == \E i \in 1..base : HexChars[i] = Lower(c)

DigitValue(c, base) == (CHOOSE i \in 1..base : HexChars[i] = Lower(c)) - 1

RECURSIVE LStrip(_)
LStrip(s) == IF s # <<>> /\ Head(s) \in Whitespace THEN LStrip(Tail(s)) ELSE s

RECURSIVE RStrip(_)
RStrip(s) == IF s # <<>> /\ s[Len(s)] \in Whitespace
             THEN RStrip(SubSeq(s, 1, Len(s) - 1))
             ELSE s

\* str.strip()
Strip(s) == RStrip(LStrip(s))

\* str.startswith, for a one-character prefix
StartsWith(s, c) == s # <<>> /\ s[1] = c

\* str.split(sep): the pieces between the separators, empty pieces kept
RECURSIVE Split(_, _)
Split(s, sep) ==
    IF \E i \in 1..Len(s) : s[i] = sep
    THEN LET i == CHOOSE j \in 1..Len(s) : s[j] = sep /\ \A k \in 1..(j - 1) : s[k] # sep
         IN  <<SubSeq(s, 1, i - 1)>> \o Split(SubSeq(s, i + 1, Len(s)), sep)
    ELSE <<s>>

RECURSIVE DigitsValue(_, _, _)
DigitsValue(s, base, acc) ==
    IF s = <<>> THEN acc
    ELSE IF Head(s) = "_" THEN DigitsValue(Tail(s), base, acc)
    ELSE DigitsValue(Tail(s), base, acc * base + DigitValue(Head(s), base))

\* int(s, base) for base 10 and 16: surrounding whitespace, one sign, for base 16
\* an optional 0x prefix, then digits, single underscores allowed between them.
IsSigned(t) == t # <<>> /\ t[1] \in {"+", "-"}

Unsigned(t) == IF IsSigned(t) THEN Tail(t) ELSE t

HasPrefix(u, base) == base = 16 /\ Len(u) >= 2 /\ u[1] = "0" /\ u[2] \in {"x", "X"}

AfterPrefix(u) == IF Len(u) >= 3 /\ u[3] = "_" THEN SubSeq(u, 4, Len(u)) ELSE SubSeq(u, 3, Len(u))

IntBody(u, base) == IF HasPrefix(u, base) THEN AfterPrefix(u) ELSE u

ValidBody(body, base) ==
    /\ body # <<>>
    /\ \A i \in 1..Len(body) : IsDigit(body[i], base) \/ body[i] = "_"
    /\ body[1] # "_"
    /\ body[Len(body)] # "_"
    /\ \A i \in 1..(Len(body) - 1) : ~(body[i] = "_" /\ body[i + 1] = "_")

Signed(t, magnitude) == IF IsSigned(t) /\ t[1] = "-" THEN -magnitude ELSE magnitude

\* [ok, val]; not ok is ValueError.
IntOfStripped(t, base) ==
    IF ValidBody(IntBody(Unsigned(t), base), base)
    THEN [ok |-> TRUE, val |-> Signed(t, DigitsValue(IntBody(Unsigned(t), base), base, 0))]
    ELSE [ok |-> FALSE, val |-> 0]

PyInt(s, base) == IntOfStripped(Strip(s), base)

(***************************************************************************)
(* parse_color: [kind, rgb, msg] with kind "None" (the function returned   *)
(* None), "rgb" (it returned the tuple rgb) or "ValueError" (it raised).   *)
(***************************************************************************)
ReturnNone == [kind |-> "None", rgb |-> NoneColor, msg |-> ""]

ReturnRGB(r, g, b) == [kind |-> "rgb", rgb |-> <<r, g, b>>, msg |-> ""]

RaiseValueError(m) == [kind |-> "ValueError", rgb |-> NoneColor, msg |-> m]

\* the hex branch
ParseHex(color_str) ==
    IF Len(color_str) # HexLen
    THEN RaiseValueError("Hex color must be in #RRGGBB format")
    ELSE LET r == PyInt(SubSeq(color_str, 2, 3), 16)
             g == PyInt(SubSeq(color_str, 4, 5), 16)
             b == PyInt(SubSeq(color_str, 6, 7), 16)
         IN  IF r.ok /\ g.ok /\ b.ok
             THEN ReturnRGB(r.val, g.val, b.val)
             ELSE RaiseValueError("Invalid hex color format")

\* the R,G,B branch: every failure inside the try block is a ValueError, and the
\* except clause raises the one message
ParseRGB(color_str) ==
    LET parts == Split(color_str, ",")
        ints == [i \in 1..Len(parts) |-> PyInt(parts[i], 10)]
        \* r, g, b = map(int, ...): the conversions run as the tuple is unpacked; a
        \* fourth item is asked for, to see that there are no more than three
        converted == /\ Len(parts) = 3
                     /\ \A i \in 1..3 : ints[i].ok
        format == "Color must be in either R,G,B format (e.g., '255,0,0') or hex format (e.g., '#ff0000')"
    IN  IF ~converted
        THEN RaiseValueError(format)
        ELSE IF ~(\A i \in 1..3 : 0 <= ints[i].val /\ ints[i].val <= MaxChannel)
             THEN RaiseValueError(format)
             ELSE ReturnRGB(ints[1].val, ints[2].val, ints[3].val)

parse_color(color_str) ==
    IF color_str = <<>>
    THEN ReturnNone
    ELSE LET stripped == Strip(color_str)
         IN  IF StartsWith(stripped, "#")
             THEN ParseHex(stripped)
             ELSE ParseRGB(stripped)

(***************************************************************************)
(* The inputs the functions are applied to.                                *)
(***************************************************************************)
Palette == <<
    <<200, 10, 10>>, <<255, 0, 0>>, <<0, 0, 0>>, <<255, 255, 255>>,
    <<128, 128, 128>>, <<5, 250, 5>>, <<180, 0, 0>>, <<179, 0, 0>>,
    <<253, 1, 1>>, <<253, 2, 0>>, <<30, 30, 30>>, <<31, 30, 30>>,
    <<225, 225, 225>>, <<10, 10, 200>> >>

AlphaValues == <<0, 128, 255>>

\* A pixel of the mode: the k-th colour of the palette, with an alpha in RGBA.
TestPixel(mode, k) ==
    LET rgb == Palette[(k % Len(Palette)) + 1]
    IN  IF mode = "RGBA" THEN rgb \o <<AlphaValues[(k % Len(AlphaValues)) + 1]>> ELSE rgb

\* A width x height image whose pixels run through the palette from colour k.
TestImage(mode, width, height, k) ==
    [mode |-> mode, width |-> width, height |-> height,
     px |-> [i \in 1..(width * height) |-> TestPixel(mode, k + i - 1)]]

TestImages ==
    {TestImage(mode, w, h, k) :
        mode \in {"RGB", "RGBA"}, w \in 1..MaxWidth, h \in 1..MaxHeight,
        k \in 0..(Len(Palette) - 1)}

TargetColors == {NoneColor, <<255, 0, 0>>, <<0, 0, 0>>, <<128, 128, 128>>}

ReplacementColors == {<<255, 255, 255>>, <<255, 0, 0>>, <<0, 255, 0>>}

Tolerances == {0, 1, 30, MaxTolerance}

Pending == [raised |-> "pending", image |-> NoImage]

NoMatch == [done |-> FALSE, pixel |-> <<>>, target_color |-> NoneColor,
            tolerance |-> 0, result |-> FALSE]

NoCall == [image |-> NoImage, target_color |-> NoneColor, replacement_color |-> NoneColor,
           keep_only_bw |-> FALSE, tolerance |-> 0]

FrameIdle ==
    /\ call = NoCall
    /\ ret = Pending
    /\ ret2 = Pending
    /\ match = NoMatch

(***************************************************************************)
(* SpecFrame: is_color_match and process_single_frame applied to drawn     *)
(* arguments.                                                              *)
(***************************************************************************)
\* is_color_match(pixel, target_color, tolerance) on one pixel of the image, as
\* stored: three channels in mode RGB, four in mode RGBA
ApplyMatch ==
    /\ ~match.done
    /\ ret = Pending
    /\ call.target_color # NoneColor
    /\ \E i \in 1..Len(call.image.px) :
          match' = [done |-> TRUE,
                    pixel |-> call.image.px[i],
                    target_color |-> call.target_color,
                    tolerance |-> call.tolerance,
                    result |-> is_color_match(call.image.px[i], call.target_color,
                                              call.tolerance)]
    /\ UNCHANGED <<call, ret, ret2>>
    /\ UNCHANGED mainVars

\* process_single_frame(image, target_color, replacement_color, keep_only_bw, tolerance)
ApplyFrame ==
    /\ ~match.done
    /\ ret = Pending
    /\ ret' = process_single_frame(call.image, call.target_color, call.replacement_color,
                                   call.keep_only_bw, call.tolerance)
    /\ UNCHANGED <<call, ret2, match>>
    /\ UNCHANGED mainVars

\* process_single_frame on the frame it returned, the other arguments the same
ApplyFrameAgain ==
    /\ ret # Pending
    /\ ret.raised = ""
    /\ ret2 = Pending
    /\ ret2' = process_single_frame(ret.image, call.target_color, call.replacement_color,
                                    call.keep_only_bw, call.tolerance)
    /\ UNCHANGED <<call, ret, match>>
    /\ UNCHANGED mainVars

NextFrame == ApplyMatch \/ ApplyFrame \/ ApplyFrameAgain

(***************************************************************************)
(* The command lines and the files main is run on.                         *)
(***************************************************************************)
\* --replace: '255,255,255'  '10,20,30'  '0,0,0'  '#FF00FF'  '#ff0000'  '#ZZZZZZ'  '#-1-1-1'  '#+f+f+f'  '# 1 2 3'
\*            '#FFF'  '#FF00FF0'  ''  '  '  '256,0,0'  '-1,0,0'  '1,2'  '1,2,3,4'  'red'  ' #000000 '
ReplaceStrings == {
    <<"2", "5", "5", ",", "2", "5", "5", ",", "2", "5", "5">>,
    <<"1", "0", ",", "2", "0", ",", "3", "0">>,
    <<"0", ",", "0", ",", "0">>,
    <<"#", "F", "F", "0", "0", "F", "F">>,
    <<"#", "f", "f", "0", "0", "0", "0">>,
    <<"#", "Z", "Z", "Z", "Z", "Z", "Z">>,
    <<"#", "-", "1", "-", "1", "-", "1">>,
    <<"#", "+", "f", "+", "f", "+", "f">>,
    <<"#", " ", "1", " ", "2", " ", "3">>,
    <<"#", "F", "F", "F">>,
    <<"#", "F", "F", "0", "0", "F", "F", "0">>,
    <<>>,
    <<" ", " ">>,
    <<"2", "5", "6", ",", "0", ",", "0">>,
    <<"-", "1", ",", "0", ",", "0">>,
    <<"1", ",", "2">>,
    <<"1", ",", "2", ",", "3", ",", "4">>,
    <<"r", "e", "d">>,
    <<" ", "#", "0", "0", "0", "0", "0", "0", " ">>
}

\* --search: not given, '', '255,0,0', '#-1-1-1', 'red'
SearchArgs ==
    {[given |-> FALSE, str |-> <<>>], [given |-> TRUE, str |-> <<>>]} \cup
    {[given |-> TRUE, str |-> s] : s \in {
        <<"2", "5", "5", ",", "0", ",", "0">>,
        <<"#", "-", "1", "-", "1", "-", "1">>,
        <<"r", "e", "d">>
    }}

ToleranceArgs == {-1, 0, 30, MaxTolerance, MaxTolerance + 1}

NoValue == [present |-> FALSE, value |-> 0]

Some(v) == [present |-> TRUE, value |-> v]

\* An image file of n frames: frame i shows for 50 * i ms when the file is timed
\* and has no duration otherwise; loop is the container's loop count, if any.
ImageFile(n, loop, timed) ==
    [frames |-> [i \in 1..n |->
                    [image |-> TestImage("RGB", 2, 1, i - 1),
                     duration |-> IF timed THEN Some(50 * i) ELSE NoValue]],
     loop |-> loop]

InputFiles ==
    {ImageFile(n, Some(l), TRUE) : n \in 1..MaxFrames, l \in {0, 3}}
        \cup {ImageFile(n, NoValue, FALSE) : n \in 1..MaxFrames}

\* The input path's extension with the file behind it: files named .gif, and a
\* still image and an animation under another name.
Inputs ==
    {[ext |-> ".gif", file |-> f] : f \in InputFiles}
        \cup {[ext |-> ".png", file |-> ImageFile(1, NoValue, FALSE)],
              [ext |-> ".png", file |-> ImageFile(MaxFrames, Some(3), TRUE)]}

NoOutput == [written |-> FALSE, frames |-> <<>>, durations |-> <<>>, loop |-> NoValue]

Closed == [open |-> FALSE, pos |-> 0, info |-> [loop |-> NoValue, duration |-> NoValue]]

MainIdle ==
    /\ argv = [tolerance |-> 30, target_color |-> [given |-> FALSE, str |-> <<>>],
               replacement_color |-> <<>>, keep_only_bw |-> FALSE, ext |-> ""]
    /\ fs = [exists |-> FALSE, decodable |-> FALSE, writable |-> FALSE,
             input |-> ImageFile(1, NoValue, FALSE), output |-> NoOutput]
    /\ pc = "idle"
    /\ replacement_rgb = NoneColor
    /\ target_rgb = NoneColor
    /\ im = Closed
    /\ frames = <<>>
    /\ raised = ""
    /\ exit_code = -1
    /\ trace = <<>>

InitFrame ==
    /\ call \in [image : TestImages, target_color : TargetColors,
                 replacement_color : ReplacementColors, keep_only_bw : BOOLEAN,
                 tolerance : Tolerances]
    /\ ret = Pending
    /\ ret2 = Pending
    /\ match = NoMatch
    /\ MainIdle

SpecFrame == InitFrame /\ [][NextFrame]_vars

(***************************************************************************)
(* Spec: one run of the main command.                                      *)
(***************************************************************************)
FileStates ==
    {<<FALSE, TRUE, TRUE>>, <<TRUE, FALSE, TRUE>>, <<TRUE, TRUE, FALSE>>, <<TRUE, TRUE, TRUE>>}

Init ==
    /\ \E t \in ToleranceArgs, s \in SearchArgs, r \in ReplaceStrings, b \in BOOLEAN,
          i \in Inputs, e \in FileStates :
          /\ argv = [tolerance |-> t, target_color |-> s, replacement_color |-> r,
                     keep_only_bw |-> b, ext |-> i.ext]
          /\ fs = [exists |-> e[1], decodable |-> e[2], writable |-> e[3],
                   input |-> i.file, output |-> NoOutput]
    /\ pc = "validate_tolerance"
    /\ replacement_rgb = NoneColor
    /\ target_rgb = NoneColor
    /\ im = Closed
    /\ frames = <<>>
    /\ raised = ""
    /\ exit_code = -1
    /\ trace = <<>>
    /\ FrameIdle

\* raise inside main's try block: control goes to the except clause that matches.
\* typer.Exit is click's Exit, a RuntimeError, so `except Exception` catches it.
Raise(exception) ==
    /\ raised' = exception
    /\ pc' = IF exception = "ValueError" THEN "except_ValueError" ELSE "except_Exception"

\* if not 0 <= tolerance <= 255: raise ValueError
ValidateTolerance ==
    /\ pc = "validate_tolerance"
    /\ IF ~(0 <= argv.tolerance /\ argv.tolerance <= MaxTolerance)
       THEN Raise("ValueError")
       ELSE pc' = "parse_replacement" /\ UNCHANGED raised
    /\ UNCHANGED <<argv, fs, replacement_rgb, target_rgb, im, frames, exit_code, trace>>
    /\ UNCHANGED frameVars

\* replacement_rgb = parse_color(replacement_color)
ParseReplacement ==
    /\ pc = "parse_replacement"
    /\ LET r == parse_color(argv.replacement_color)
       IN  IF r.kind = "ValueError"
           THEN Raise("ValueError") /\ UNCHANGED replacement_rgb
           ELSE /\ replacement_rgb' = r.rgb
                /\ pc' = "parse_target"
                /\ UNCHANGED raised
    /\ UNCHANGED <<argv, fs, target_rgb, im, frames, exit_code, trace>>
    /\ UNCHANGED frameVars

\* target_rgb = parse_color(target_color) if target_color else None
ParseTarget ==
    /\ pc = "parse_target"
    /\ IF argv.target_color.given /\ argv.target_color.str # <<>>
       THEN LET r == parse_color(argv.target_color.str)
            IN  IF r.kind = "ValueError"
                THEN Raise("ValueError") /\ UNCHANGED target_rgb
                ELSE /\ target_rgb' = r.rgb
                     /\ pc' = "check_input"
                     /\ UNCHANGED raised
       ELSE /\ target_rgb' = NoneColor
            /\ pc' = "check_input"
            /\ UNCHANGED raised
    /\ UNCHANGED <<argv, fs, replacement_rgb, im, frames, exit_code, trace>>
    /\ UNCHANGED frameVars

\* if not os.path.exists(input_file): raise typer.Exit(1)
CheckInput ==
    /\ pc = "check_input"
    /\ trace' = Append(trace, "os.path.exists")
    /\ IF ~fs.exists
       THEN Raise("Exit")
       ELSE pc' = "process_image" /\ UNCHANGED raised
    /\ UNCHANGED <<argv, fs, replacement_rgb, target_rgb, im, frames, exit_code>>
    /\ UNCHANGED frameVars

\* im.info once the decoder stands at frame k: the frame's duration, if it has
\* one, and the container's loop count, if it has one
InfoAt(file, k) == [loop |-> file.loop, duration |-> file.frames[k].duration]

\* process_image is called; with Image.open(input_path) as im
OpenImage ==
    /\ pc = "process_image"
    /\ trace' = Append(trace, "Image.open")
    /\ IF ~fs.decodable
       THEN Raise("UnidentifiedImageError") /\ UNCHANGED im
       ELSE /\ im' = [open |-> TRUE, pos |-> 1, info |-> InfoAt(fs.input, 1)]
            /\ pc' = IF argv.ext = ".gif" THEN "gif_frames" ELSE "single_frame"
            /\ UNCHANGED raised
    /\ UNCHANGED <<argv, fs, replacement_rgb, target_rgb, frames, exit_code>>
    /\ UNCHANGED frameVars

\* one turn of: for frame in ImageSequence.Iterator(im): frames.append(...)
\* The iterator seeks im itself to the next frame and yields it.
ProcessGifFrame ==
    /\ pc = "gif_frames"
    /\ Len(frames) < Len(fs.input.frames)
    /\ LET k == Len(frames) + 1
           r == process_single_frame(fs.input.frames[k].image, target_rgb,
                                     replacement_rgb, argv.keep_only_bw, argv.tolerance)
       IN  /\ trace' = Append(trace, "process_single_frame")
           /\ IF r.raised # ""
              THEN /\ Raise(r.raised)
                   /\ im' = Closed
                   /\ UNCHANGED frames
              ELSE /\ im' = [open |-> TRUE, pos |-> k, info |-> InfoAt(fs.input, k)]
                   /\ frames' = Append(frames, r.image)
                   /\ UNCHANGED <<pc, raised>>
    /\ UNCHANGED <<argv, fs, replacement_rgb, target_rgb, exit_code>>
    /\ UNCHANGED frameVars

\* im.info.get(key, default)
InfoGet(value, default) == IF value.present THEN value.value ELSE default

\* duration=im.info.get('duration', 100): one number, which the encoder gives to
\* every frame it writes
SavedDurations(n) == [i \in 1..n |-> InfoGet(im.info.duration, DefaultDuration)]

\* frames[0].save(output_path, save_all=True, append_images=frames[1:], loop=..., ...)
SaveGif ==
    /\ pc = "gif_frames"
    /\ Len(frames) = Len(fs.input.frames)
    /\ trace' = Append(trace, "save")
    /\ im' = Closed
    /\ IF ~fs.writable
       THEN Raise("OSError") /\ UNCHANGED fs
       ELSE /\ fs' = [fs EXCEPT !.output =
                        [written |-> TRUE,
                         frames |-> frames,
                         durations |-> SavedDurations(Len(frames)),
                         loop |-> Some(InfoGet(im.info.loop, DefaultLoop))]]
            /\ pc' = "success"
            /\ UNCHANGED raised
    /\ UNCHANGED <<argv, replacement_rgb, target_rgb, frames, exit_code>>
    /\ UNCHANGED frameVars

\* processed_image = process_single_frame(im, ...): the frame the decoder stands at
ProcessSingleImage ==
    /\ pc = "single_frame"
    /\ LET r == process_single_frame(fs.input.frames[im.pos].image, target_rgb,
                                     replacement_rgb, argv.keep_only_bw, argv.tolerance)
       IN  /\ trace' = Append(trace, "process_single_frame")
           /\ IF r.raised # ""
              THEN /\ Raise(r.raised)
                   /\ im' = Closed
                   /\ UNCHANGED frames
              ELSE /\ frames' = <<r.image>>
                   /\ pc' = "save_single"
                   /\ UNCHANGED <<im, raised>>
    /\ UNCHANGED <<argv, fs, replacement_rgb, target_rgb, exit_code>>
    /\ UNCHANGED frameVars

\* processed_image.save(output_path)
SaveSingle ==
    /\ pc = "save_single"
    /\ trace' = Append(trace, "save")
    /\ im' = Closed
    /\ IF ~fs.writable
       THEN Raise("OSError") /\ UNCHANGED fs
       ELSE /\ fs' = [fs EXCEPT !.output =
                        [written |-> TRUE, frames |-> frames,
                         durations |-> <<>>, loop |-> NoValue]]
            /\ pc' = "success"
            /\ UNCHANGED raised
    /\ UNCHANGED <<argv, replacement_rgb, target_rgb, frames, exit_code>>
    /\ UNCHANGED frameVars

\* the success message; main returns and the command exits with code 0
ReportSuccess ==
    /\ pc = "success"
    /\ exit_code' = 0
    /\ pc' = "exited"
    /\ UNCHANGED <<argv, fs, replacement_rgb, target_rgb, im, frames, raised, trace>>
    /\ UNCHANGED frameVars

\* except ValueError as e: ... raise typer.Exit(1)
HandleValueError ==
    /\ pc = "except_ValueError"
    /\ exit_code' = 1
    /\ pc' = "exited"
    /\ UNCHANGED <<argv, fs, replacement_rgb, target_rgb, im, frames, raised, trace>>
    /\ UNCHANGED frameVars

\* A variant of the handler: the exception is reported and not re-raised.
HandleExceptionSwallowed ==
    /\ pc = "except_Exception"
    /\ exit_code' = 0
    /\ pc' = "exited"
    /\ UNCHANGED <<argv, fs, replacement_rgb, target_rgb, im, frames, raised, trace>>
    /\ UNCHANGED frameVars

\* except Exception as e: ... raise typer.Exit(1)
HandleException ==
    /\ pc = "except_Exception"
    /\ exit_code' = 1
    /\ pc' = "exited"
    /\ UNCHANGED <<argv, fs, replacement_rgb, target_rgb, im, frames, raised, trace>>
    /\ UNCHANGED frameVars

Next ==
    \/ ValidateTolerance
    \/ ParseReplacement
    \/ ParseTarget
    \/ CheckInput
    \/ OpenImage
    \/ ProcessGifFrame
    \/ SaveGif
    \/ ProcessSingleImage
    \/ SaveSingle
    \/ ReportSuccess
    \/ HandleValueError
    \/ HandleException

Spec == Init /\ [][Next]_vars

(***************************************************************************)
(* Properties of the colour matcher and the frame processor (SpecFrame).   *)
(***************************************************************************)
\* The rule of the matcher, in integers: max(dR,dG,dB) <= tolerance, or
\* 4 * (dR^2 + dG^2 + dB^2) <= 25 * tolerance^2.
RuleMatches(pixel, target, tolerance) ==
    LET dR == Abs(pixel[1] - target[1])
        dG == Abs(pixel[2] - target[2])
        dB == Abs(pixel[3] - target[3])
    IN  \/ (dR <= tolerance /\ dG <= tolerance /\ dB <= tolerance)
        \/ 4 * (dR * dR + dG * dG + dB * dB) <= 25 * tolerance * tolerance

\* Near black or near white: all three channels at one end.
RuleNearBlackOrWhite(pixel, tolerance) ==
    \/ \A c \in 1..3 : pixel[c] <= tolerance
    \/ \A c \in 1..3 : pixel[c] >= MaxChannel - tolerance

\* C1: is_color_match returns true exactly when the largest channel difference is
\* within the tolerance or the Euclidean distance is within 2.5 times the
\* tolerance; it reads the first three channels only, so an alpha channel never
\* changes the answer; a colour matches itself at tolerance 0, and (200,10,10)
\* matches (255,0,0) at tolerance 30.
C1_MatchRule ==
    match.done =>
        /\ match.result = RuleMatches(match.pixel, match.target_color, match.tolerance)
        /\ (FirstThree(match.pixel) = match.target_color => match.result)
        /\ (/\ FirstThree(match.pixel) = <<200, 10, 10>>
            /\ match.target_color = <<255, 0, 0>>
            /\ match.tolerance = 30) => match.result

\* The scenario of the specification, on a pixel that carries an alpha channel:
\* the channel rule fails (55 > 30) and the distance rule matches.
C1_Witness ==
    /\ match.done
    /\ match.pixel = <<200, 10, 10, 0>>
    /\ match.target_color = <<255, 0, 0>>
    /\ match.tolerance = 30
    /\ match.result

\* The source colour at cell i of the frame given to process_single_frame.
SourceRGB(i) == FirstThree(call.image.px[i])

Returned == ret # Pending /\ ret.raised = ""

\* C2: every output pixel is decided by one rule. With a target colour it is the
\* replacement colour if the source pixel matches the target and the source
\* colour otherwise; with no target colour it is the source colour if the pixel
\* is near black or near white (all three channels at one end) and the
\* replacement colour otherwise.
C2_PixelRule ==
    Returned =>
        /\ Len(ret.image.px) = Len(call.image.px)
        /\ \A i \in 1..Len(call.image.px) :
              FirstThree(ret.image.px[i]) =
                 IF call.target_color # NoneColor
                 THEN IF RuleMatches(SourceRGB(i), call.target_color, call.tolerance)
                      THEN call.replacement_color
                      ELSE SourceRGB(i)
                 ELSE IF RuleNearBlackOrWhite(SourceRGB(i), call.tolerance)
                      THEN SourceRGB(i)
                      ELSE call.replacement_color

\* No target: (5,250,5) has two channels near black and one near white, and is
\* replaced; another pixel of the same frame is kept.
C2_Witness ==
    /\ Returned
    /\ call.target_color = NoneColor
    /\ call.tolerance = 30
    /\ \E i \in 1..Len(call.image.px) :
          /\ SourceRGB(i) = <<5, 250, 5>>
          /\ FirstThree(ret.image.px[i]) = call.replacement_color
    /\ \E i \in 1..Len(call.image.px) :
          /\ FirstThree(ret.image.px[i]) = SourceRGB(i)
          /\ SourceRGB(i) # call.replacement_color

\* C7: with a target colour, process_single_frame applied to its own result
\* (same target, replacement and tolerance) returns that result again.
C7_Idempotent ==
    (call.target_color # NoneColor /\ ret2 # Pending) => ret2 = ret

\* A second application on a frame in which the first one replaced a pixel and
\* kept another, the replacement colour itself not matching the target.
C7_Witness ==
    /\ call.target_color # NoneColor
    /\ ret2 # Pending
    /\ ~RuleMatches(call.replacement_color, call.target_color, call.tolerance)
    /\ \E i \in 1..Len(call.image.px) :
          /\ FirstThree(ret.image.px[i]) = call.replacement_color
          /\ SourceRGB(i) # call.replacement_color
    /\ \E i \in 1..Len(call.image.px) :
          /\ FirstThree(ret.image.px[i]) = SourceRGB(i)
          /\ SourceRGB(i) # call.replacement_color

C10_FlagIgnored ==
    Returned =>
        ret = process_single_frame(call.image, call.target_color, call.replacement_color,
                                   ~call.keep_only_bw, call.tolerance)

\* The flag set and no target colour, at a tolerance above 0, on a frame with a
\* pixel that is near black without being black: (30,30,30) is kept.
C10_Witness ==
    /\ Returned
    /\ call.keep_only_bw
    /\ call.target_color = NoneColor
    /\ call.tolerance = 30
    /\ \E i \in 1..Len(call.image.px) :
          /\ SourceRGB(i) = <<30, 30, 30>>
          /\ FirstThree(ret.image.px[i]) = <<30, 30, 30>>
    /\ \E i \in 1..Len(call.image.px) :
          /\ FirstThree(ret.image.px[i]) = call.replacement_color
          /\ SourceRGB(i) # call.replacement_color

(***************************************************************************)
(* Properties of the main command and the image pipeline (Spec).           *)
(***************************************************************************)
HexDigitChars == {HexChars[i] : i \in 1..Len(HexChars)} \cup {UpperHex[i] : i \in 1..Len(UpperHex)}

DecDigitChars == {DecChars[i] : i \in 1..Len(DecChars)}

\* '#RRGGBB': seven characters, six hex digits after '#'.
HexShape(s) == Len(s) = HexLen /\ s[1] = "#" /\ \A i \in 2..HexLen : s[i] \in HexDigitChars

HexByte(s, i) == 16 * DigitValue(s[i], 16) + DigitValue(s[i + 1], 16)

\* A decimal integer: digits only (blanks around it are let through).
DecimalShape(part) ==
    Strip(part) # <<>> /\ \A i \in 1..Len(Strip(part)) : Strip(part)[i] \in DecDigitChars

DecimalValue(part) == DigitsValue(Strip(part), 10, 0)

\* 'R,G,B': three decimal integers, each in 0..255.
RgbShape(s) ==
    /\ Len(Split(s, ",")) = 3
    /\ \A i \in 1..3 : /\ DecimalShape(Split(s, ",")[i])
                       /\ DecimalValue(Split(s, ",")[i]) <= MaxChannel

\* The two shapes of a colour string (blanks around the string are let through).
ColorShape(s) == HexShape(Strip(s)) \/ RgbShape(Strip(s))

\* The colour a string of one of the two shapes stands for.
ColorValue(s) ==
    IF HexShape(Strip(s))
    THEN <<HexByte(Strip(s), 2), HexByte(Strip(s), 4), HexByte(Strip(s), 6)>>
    ELSE [i \in 1..3 |-> DecimalValue(Split(Strip(s), ",")[i])]

SearchGiven == argv.target_color.given /\ argv.target_color.str # <<>>

ToleranceInRange == 0 <= argv.tolerance /\ argv.tolerance <= MaxTolerance

IsColor(c) == Len(c) = 3 /\ \A i \in 1..3 : 0 <= c[i] /\ c[i] <= MaxChannel

\* C3: for a .gif input of N frames with distinct durations and a loop count L,
\* the output has N frames in the same order, frame i with the duration of input
\* frame i, and loop count L (stated for runs whose colour strings are of one of
\* the two shapes).
C3_AnimatedRoundTrip ==
    (/\ argv.ext = ".gif"
     /\ ColorShape(argv.replacement_color)
     /\ (SearchGiven => ColorShape(argv.target_color.str))
     /\ fs.output.written
     /\ fs.input.loop.present
     /\ \A i \in 1..Len(fs.input.frames) : fs.input.frames[i].duration.present) =>
        /\ Len(fs.output.frames) = Len(fs.input.frames)
        /\ Len(fs.output.durations) = Len(fs.input.frames)
        /\ \A i \in 1..Len(fs.input.frames) :
              fs.output.durations[i] = fs.input.frames[i].duration.value
        /\ fs.output.loop = fs.input.loop

\* C4: every validation error (tolerance out of range, a --search or --replace
\* string of neither shape, a missing input file) is found before process_image
\* runs: no image is opened, no frame processed, no output written; and an
\* out-of-range tolerance is found before any access to the file system.
C4_ValidationFirst ==
    /\ (\/ ~ToleranceInRange
        \/ ~ColorShape(argv.replacement_color)
        \/ (SearchGiven /\ ~ColorShape(argv.target_color.str))
        \/ ~fs.exists) =>
           /\ \A i \in 1..Len(trace) : trace[i] \notin {"Image.open", "process_single_frame", "save"}
           /\ ~fs.output.written
    /\ ~ToleranceInRange => trace = <<>>

\* C5: parse_color returns the colour of a string of one of the two shapes and
\* raises ValueError for every other string, the empty string included.
C5_ParseColorGrammar ==
    /\ pc = "parse_target" =>
          /\ ColorShape(argv.replacement_color)
          /\ replacement_rgb = ColorValue(argv.replacement_color)
    /\ (pc = "check_input" /\ SearchGiven) =>
          /\ ColorShape(argv.target_color.str)
          /\ target_rgb = ColorValue(argv.target_color.str)
    /\ (pc = "except_ValueError" /\ ToleranceInRange) =>
          \/ ~ColorShape(argv.replacement_color)
          \/ (SearchGiven /\ ~ColorShape(argv.target_color.str))

\* C6: when main reaches the call of process_image, the tolerance is in 0..255
\* and the replacement colour and the target colour (when there is one) are
\* 3-tuples of channels in 0..255.
C6_ArgumentsInRange ==
    pc = "process_image" =>
        /\ ToleranceInRange
        /\ IsColor(replacement_rgb)
        /\ (target_rgb = NoneColor \/ IsColor(target_rgb))

\* C8: a run ends with exit code 0 exactly when the image was processed and
\* saved, and with exit code 1 on every error: an out-of-range tolerance, a
\* colour parse error, a missing input file (typer.Exit(1) raised inside the try
\* block), an exception while decoding, transforming or saving. No exit code is
\* given before the run ends.
C8_ExitCode ==
    /\ pc = "exited" =>
          /\ exit_code \in {0, 1}
          /\ exit_code = 0 <=> (fs.output.written /\ raised = "")
          /\ raised # "" => exit_code = 1
          /\ (\/ ~ToleranceInRange
              \/ ~fs.exists
              \/ ~fs.decodable
              \/ ~fs.writable) => exit_code = 1
    /\ pc # "exited" => exit_code = -1

\* The missing-input path: typer.Exit(1), raised inside the try block, is caught
\* by `except Exception` and the run still ends with exit code 1.
C8_Witness ==
    /\ pc = "exited"
    /\ raised = "Exit"
    /\ ~fs.exists
    /\ exit_code = 1
    /\ trace = <<"os.path.exists">>

====
